---- MODULE Spec2Model ----
(***************************************************************************)
(* Streaming batch pipeline of guia-ne: ZIP archives are streamed member   *)
(* by member (StreamingZipProcessor), every XML member is uploaded to the  *)
(* object store (StreamingOCIClient), and the outcomes are folded into one *)
(* result per archive and one result list per batch (BatchProcessor, and   *)
(* its sequential twin StreamingBatchProcessor).                           *)
(*                                                                         *)
(* Text is modelled as a sequence of tokens (a Python str is the           *)
(* concatenation of its tokens), so that formatting, joining, slicing and  *)
(* str.replace are computed and not assumed.  An Optional[str] is <<>>     *)
(* (None) or <<text>>.  Accented letters of the source's literals are      *)
(* written without the accent.                                             *)
(***************************************************************************)
EXTENDS Integers, Sequences, FiniteSets, TLC

VARIABLES
    call,             \* the activation record of one process_single_file_streaming call
    up,               \* the last upload_from_bytes call: its arguments, the remote put, its return
    store,            \* the bucket: set of <<object_name, content>>
    tasks,            \* process_batch_streaming: one future per submitted archive
    results,          \* process_batch_streaming: the local list `results`
    processed_count,  \* process_batch_streaming: the local counter
    bpc,              \* process_batch_streaming: where the calling thread is
    progress,         \* the progress callback: whether one is given, its calls, the archives it raised for
    max_workers,      \* BatchProcessor.max_workers
    ledger,           \* FileManager.metadata_file: the rows of the CSV, or absent
    summ,             \* one summary call: its input, a reordering of it, both outputs, the text
    main              \* main_batch.main: its position and its locals

vars == <<call, up, store, tasks, results, processed_count, bpc, progress,
          max_workers, ledger, summ, main>>

----------------------------------------------------------------------------
(* Bounds of the model *)

MaxMembers == 5        \* entries of an archive listing, one call alone
MaxLen == 2            \* bytes of a content handed to upload_from_bytes alone
MaxArchives == 2       \* archives of one batch
MaxWorkers == 2        \* width of the worker pool
MaxResults == 3        \* results handed to one summary call
FloatBits == 3         \* bits of a float's significand
MaxFiles == 2          \* .zip files under the SSD directory, one run of main
MaxBatchSize == 1      \* processing.batch_size
MaxEntries == 2        \* entries of an archive whose bytes are looked at

----------------------------------------------------------------------------
(* Text *)

None == << >>
Some(text) == << text >>

\* str(x) of an Optional[str] inside an f-string
Fmt(opt) == IF opt = None THEN << "None" >> ELSE opt[1]

Digits == << "0", "1", "2", "3", "4", "5", "6", "7", "8", "9" >>
\* str(n) of a small count
Str(n) == IF n < 10 THEN << Digits[n + 1] >> ELSE << "many" >>

RECURSIVE Join(_, _)
\* sep.join(parts)
Join(sep, parts) ==
    IF parts = << >> THEN << >>
    ELSE IF Len(parts) = 1 THEN parts[1]
    ELSE parts[1] \o sep \o Join(sep, Tail(parts))

\* sub in text
Contains(text, sub) ==
    \E i \in 1..(Len(text) - Len(sub) + 1) : SubSeq(text, i, i + Len(sub) - 1) = sub

\* parts[:n]
Take(parts, n) == SubSeq(parts, 1, IF Len(parts) < n THEN Len(parts) ELSE n)

\* repr of a list of str
ReprList(parts) ==
    << "[" >> \o Join(<< ", " >>, [i \in 1..Len(parts) |-> << "'" >> \o parts[i] \o << "'" >>])
              \o << "]" >>

\* messages an exception raised by the environment may carry (str(e) may be empty)
Msgs == { << >>, << "boom" >> }

----------------------------------------------------------------------------
(* Archives on the SSD *)

EntryExts == { ".xml", ".txt", "/" }
MemberStems == << "1", "2", "3", "4", "5", "6", "7", "8" >>

\* the name of the i-th entry of a listing
EntryName(i, ext) == << MemberStems[i], ext >>

Listings(n) == UNION { [1..k -> EntryExts] : k \in 0..n }

\* an archive: missing, not a valid ZIP container, or a container with a listing
Archives(listings) ==
    { [exists |-> FALSE, valid |-> FALSE, infolist |-> << >>],
      [exists |-> TRUE, valid |-> FALSE, infolist |-> << >>] }
    \cup { [exists |-> TRUE, valid |-> TRUE,
            infolist |-> [i \in 1..Len(l) |-> EntryName(i, l[i])]] : l \in listings }

\* str.endswith on the last token
EndsWith(name, suffix) == Len(name) > 0 /\ name[Len(name)] = suffix

\* ZipInfo.is_dir: the name ends in a slash
is_dir(name) == EndsWith(name, "/")

\* variant of IsXmlInfo: the extension test is forgotten
IsXmlInfo_AnyFile(name) == ~is_dir(name)

IsXmlInfo(name) == EndsWith(name, ".xml") /\ ~is_dir(name)

\* what zip_ref.read(member) does: raises, or returns the bytes
ArchiveContents == { << >>, << 7 >> }
ReadOutcomes ==
    { [ok |-> FALSE, content |-> << >>] }
    \cup { [ok |-> TRUE, content |-> c] : c \in ArchiveContents }

XMLFileStream(filename, content, size) ==
    [filename |-> filename, content |-> content, size |-> size]

\* what leaving the with block does when the generator ends: the file is closed,
\* or closing it raises OSError
CloseOutcomes == { [ok |-> TRUE, msg |-> << >>], [ok |-> FALSE, msg |-> << "I/O error" >>] }

\* the generator's outer except branch: raise ZipProcessingError(...)
ZipProcessingError(msg) == << "Erro na extracao streaming: " >> \o msg

\* stream_xml_files up to its first read: raises, or holds the filtered listing.
\* An exception of a member read is caught in the loop body; the generator
\* raises from here and from its end.
stream_xml_files(zip_filename, archive) ==
    IF ~archive.exists
    THEN [raised |-> TRUE,
          msg |-> << "Arquivo Zip nao encontrado: " >> \o zip_filename,
          xml_files |-> << >>]
    ELSE IF ~archive.valid
    THEN [raised |-> TRUE,
          msg |-> ZipProcessingError(<< "File is not a zip file" >>),
          xml_files |-> << >>]
    ELSE [raised |-> FALSE, msg |-> << >>,
          xml_files |-> SelectSeq(archive.infolist, IsXmlInfo)]

StreamExtractionResult(zip_filename, xml_files_found, success, error_message) ==
    [zip_filename |-> zip_filename, xml_files_found |-> xml_files_found,
     success |-> success, error_message |-> error_message]

\* the pre-check: counts the XML members, never raises
extract_xml_files_streaming(zip_filename, archive) ==
    IF ~archive.exists
    THEN StreamExtractionResult(zip_filename, 0, FALSE,
             Some(<< "Arquivo ZIP nao encontrado: " >> \o zip_filename))
    ELSE IF ~archive.valid
    THEN StreamExtractionResult(zip_filename, 0, FALSE, Some(<< "File is not a zip file" >>))
    ELSE LET xml_files == SelectSeq(archive.infolist, IsXmlInfo)
         IN  IF Len(xml_files) > 0
             THEN StreamExtractionResult(zip_filename, Len(xml_files), TRUE, None)
             ELSE StreamExtractionResult(zip_filename, 0, FALSE,
                      Some(<< "Nenhum arquivo XML encontrado em " >> \o zip_filename))

----------------------------------------------------------------------------
(* The object store client *)

\* what client.put_object does: completes, raises ServiceError, raises something else
PutOutcomes ==
    { [kind |-> "ok", msg |-> << >>] }
    \cup { [kind |-> k, msg |-> m] : k \in { "ServiceError", "Exception" }, m \in Msgs }

\* the same inside a call of process_single_file_streaming, which carries the
\* message of a failed upload along unread: one text stands for all
LoopPutOutcomes == { p \in PutOutcomes : p.kind = "ok" \/ p.msg # << >> }

StreamUploadResult(object_name, success, size_bytes, error_message) ==
    [object_name |-> object_name, success |-> success, size_bytes |-> size_bytes,
     error_message |-> error_message]

\* the return of an upload: the result, or an exception that left the call
Returned(ret, put_called, stored) ==
    [raised |-> FALSE, msg |-> << >>, ret |-> ret, put_called |-> put_called,
     stored |-> stored]

\* variant of upload_from_bytes: only ServiceError is caught
upload_from_bytes_Uncaught(content, object_name, put) ==
    IF Len(content) = 0
    THEN Returned(StreamUploadResult(object_name, FALSE, 0, Some(<< "Conteudo vazio" >>)),
                  FALSE, FALSE)
    ELSE IF put.kind = "ok"
    THEN Returned(StreamUploadResult(object_name, TRUE, Len(content), None), TRUE, TRUE)
    ELSE IF put.kind = "ServiceError"
    THEN Returned(StreamUploadResult(object_name, FALSE, 0, Some(<< "Erro OCI: " >> \o put.msg)),
                  TRUE, FALSE)
    ELSE [raised |-> TRUE, msg |-> put.msg,
          ret |-> StreamUploadResult(object_name, FALSE, 0, None),
          put_called |-> TRUE, stored |-> FALSE]

\* variant of upload_from_bytes: the empty-content test is forgotten
upload_from_bytes_NoEmptyCheck(content, object_name, put) ==
    IF put.kind = "ok"
    THEN Returned(StreamUploadResult(object_name, TRUE, Len(content), None), TRUE, TRUE)
    ELSE IF put.kind = "ServiceError"
    THEN Returned(StreamUploadResult(object_name, FALSE, 0, Some(<< "Erro OCI: " >> \o put.msg)),
                  TRUE, FALSE)
    ELSE Returned(StreamUploadResult(object_name, FALSE, 0, Some(put.msg)), TRUE, FALSE)

upload_from_bytes(content, object_name, put) ==
    IF Len(content) = 0
    THEN Returned(StreamUploadResult(object_name, FALSE, 0, Some(<< "Conteudo vazio" >>)),
                  FALSE, FALSE)
    ELSE IF put.kind = "ok"
    THEN Returned(StreamUploadResult(object_name, TRUE, Len(content), None), TRUE, TRUE)
    ELSE IF put.kind = "ServiceError"
    THEN Returned(StreamUploadResult(object_name, FALSE, 0, Some(<< "Erro OCI: " >> \o put.msg)),
                  TRUE, FALSE)
    ELSE Returned(StreamUploadResult(object_name, FALSE, 0, Some(put.msg)), TRUE, FALSE)

\* put_object replaces the object of that name
PutObject(bucket, object_name, content) ==
    { o \in bucket : o[1] # object_name } \cup { << object_name, content >> }

----------------------------------------------------------------------------
(* process_single_file_streaming: one call, as an activation record          *)
(* variant "BP" is BatchProcessor, "SP" is StreamingBatchProcessor           *)

Variants == { "BP", "SP" }

BatchResult(zip_filename, status, xml_files_processed, uploaded_objects, processing_time_seconds, error_message) ==
    [zip_filename |-> zip_filename, status |-> status,
     xml_files_processed |-> xml_files_processed, uploaded_objects |-> uploaded_objects,
     processing_time_seconds |-> processing_time_seconds, error_message |-> error_message]

StreamingBatchResult(zip_filename, status, xml_files_processed, uploaded_objects, total_bytes_uploaded, processing_time_seconds, error_message) ==
    [zip_filename |-> zip_filename, status |-> status,
     xml_files_processed |-> xml_files_processed, uploaded_objects |-> uploaded_objects,
     total_bytes_uploaded |-> total_bytes_uploaded,
     processing_time_seconds |-> processing_time_seconds, error_message |-> error_message]

\* the locals at entry: the clock reads start_time, the result starts as ERRO.
\* exc and log are the call's history: the exception its handler caught, and
\* one event per XML member the generator came to.
NewCall(variant, zip_filename, archive, object_prefix) ==
    [variant |-> variant, zip_filename |-> zip_filename, archive |-> archive,
     object_prefix |-> object_prefix,
     pc |-> IF variant = "BP" THEN "stream" ELSE "precheck",
     now |-> 0, start_time |-> 0,
     result |-> IF variant = "BP"
                THEN BatchResult(zip_filename, "ERRO", 0, << >>, 0, None)
                ELSE StreamingBatchResult(zip_filename, "ERRO", 0, << >>, 0, 0, None),
     xml_files |-> << >>, idx |-> 0,
     xml_file |-> XMLFileStream(<< >>, << >>, 0),
     uploaded_objects |-> << >>, upload_failures |-> << >>, upload_results |-> << >>,
     exc |-> None, log |-> << >>]

\* time passes with every I/O step; time.time() reads cs.now
Tick(cs) == [cs EXCEPT !.now = @ + 1]

NotZipToken(t) == t # ".zip"
\* zip_filename.replace(".zip", "")
zip_base_name(zip_filename) == SelectSeq(zip_filename, NotZipToken)

\* f"{object_prefix}/{zip_base_name}/{xml_file.filename}"
ObjectName(object_prefix, base_name, filename) ==
    << object_prefix, "/" >> \o base_name \o << "/" >> \o filename

\* variant of HandleException: no handler, the exception leaves the call
HandleException_Propagates(cs, msg) == [cs EXCEPT !.exc = Some(msg), !.pc = "raised"]

\* variant of HandleException: the handler logs and forgets the message
HandleException_NoMessage(cs, msg) ==
    [cs EXCEPT !.result.processing_time_seconds = cs.now - cs.start_time,
               !.exc = Some(msg),
               !.pc = "done"]

\* except Exception as e: the result keeps its status, takes str(e) and the time
HandleException(cs, msg) ==
    [cs EXCEPT !.result.error_message = Some(msg),
               !.result.processing_time_seconds = cs.now - cs.start_time,
               !.exc = Some(msg),
               !.pc = "done"]

\* the for statement asks the generator for its next member
NextMember(cs) ==
    [cs EXCEPT !.idx = @ + 1,
               !.pc = IF cs.idx + 1 > Len(cs.xml_files) THEN "finalize" ELSE "read"]

\* SP only: the pre-check and the early return (which sets no time)
DoPrecheck(cs) ==
    LET c == Tick(cs)
        extraction_info == extract_xml_files_streaming(c.zip_filename, c.archive)
    IN  IF ~extraction_info.success
        THEN [c EXCEPT !.result.error_message = extraction_info.error_message,
                       !.exc = IF c.archive.exists /\ c.archive.valid
                               THEN None ELSE extraction_info.error_message,
                       !.pc = "done"]
        ELSE [c EXCEPT !.pc = "stream"]

\* the first next() of the generator: existence check, open, listing
DoStream(cs) ==
    LET c == Tick(cs)
        g == stream_xml_files(c.zip_filename, c.archive)
    IN  IF g.raised THEN HandleException(c, g.msg)
        ELSE NextMember([c EXCEPT !.xml_files = g.xml_files, !.idx = 0])

Event(filename, object_name, content, read_ok, put_called, success) ==
    [filename |-> filename, object_name |-> object_name, content |-> content,
     read_ok |-> read_ok, put_called |-> put_called, success |-> success]

\* the generator's loop body for one member: a failed read is logged and the
\* member skipped, a successful one is yielded
DoRead(cs, r) ==
    LET c == Tick(cs)
        filename == c.xml_files[c.idx]
    IN  IF ~r.ok
        THEN NextMember([c EXCEPT !.log = Append(@, Event(filename, << >>, << >>, FALSE,
                                                          FALSE, FALSE))])
        ELSE [c EXCEPT !.xml_file = XMLFileStream(filename, r.content, Len(r.content)),
                       !.pc = "upload"]

\* variant of FoldBP: the counter counts every upload
FoldBP_CountsEveryUpload(cs, object_name, upload_result) ==
    IF upload_result.success
    THEN [cs EXCEPT !.uploaded_objects = Append(@, object_name),
                    !.result.xml_files_processed = @ + 1]
    ELSE [cs EXCEPT !.result.xml_files_processed = @ + 1,
                    !.upload_failures =
              Append(@, cs.xml_file.filename \o << ": " >> \o Fmt(upload_result.error_message))]

\* BP, the loop body after the upload
FoldBP(cs, object_name, upload_result) ==
    IF upload_result.success
    THEN [cs EXCEPT !.uploaded_objects = Append(@, object_name),
                    !.result.xml_files_processed = @ + 1]
    ELSE [cs EXCEPT !.upload_failures =
              Append(@, cs.xml_file.filename \o << ": " >> \o Fmt(upload_result.error_message))]

\* SP, the loop body after the upload
FoldSP(cs, object_name, upload_result) ==
    LET c == [cs EXCEPT !.upload_results = Append(@, upload_result)]
    IN  IF upload_result.success
        THEN [c EXCEPT !.result.uploaded_objects = Append(@, object_name),
                       !.result.xml_files_processed = @ + 1,
                       !.result.total_bytes_uploaded = @ + upload_result.size_bytes]
        ELSE c

\* the loop body of process_single_file_streaming for the member just yielded
DoUpload(cs, put) ==
    LET c == Tick(cs)
        object_name == ObjectName(c.object_prefix, zip_base_name(c.zip_filename),
                                  c.xml_file.filename)
        u == upload_from_bytes(c.xml_file.content, object_name, put)
    IN  IF u.raised THEN HandleException(c, u.msg)
        ELSE LET logged == [c EXCEPT !.log = Append(@, Event(c.xml_file.filename, object_name,
                                                  c.xml_file.content, TRUE, u.put_called,
                                                  u.ret.success))]
             IN  NextMember(IF c.variant = "BP" THEN FoldBP(logged, object_name, u.ret)
                            ELSE FoldSP(logged, object_name, u.ret))

\* BP, "Determina status final"
FinalizeBP(cs) ==
    LET timed == [cs EXCEPT !.result.processing_time_seconds = cs.now - cs.start_time,
                            !.pc = "done"]
    IN  IF cs.result.xml_files_processed > 0
        THEN [timed EXCEPT
                 !.result.status = IF cs.upload_failures = << >> THEN "SUCESSO"
                                   ELSE "SUCESSO_PARCIAL",
                 !.result.uploaded_objects = cs.uploaded_objects,
                 !.result.error_message =
                     IF cs.upload_failures # << >>
                     THEN Some(<< "Falhas em uploads: " >> \o Join(<< "; " >>, cs.upload_failures))
                     ELSE @]
        ELSE [timed EXCEPT
                 !.result.status = "ERRO",
                 !.result.error_message = Some(<< "Nenhum arquivo foi processado com sucesso" >>)]

IsSuccess(r) == r.success
IsFailure(r) == ~r.success

\* SP, "Determinar status final"
FinalizeSP(cs) ==
    LET timed == [cs EXCEPT !.result.processing_time_seconds = cs.now - cs.start_time,
                            !.pc = "done"]
        total_uploads == Len(cs.upload_results)
        successful_uploads == Len(SelectSeq(cs.upload_results, IsSuccess))
        failed == SelectSeq(cs.upload_results, IsFailure)
        failed_uploads == [i \in 1..Len(failed) |-> failed[i].object_name]
    IN  IF successful_uploads = total_uploads /\ successful_uploads > 0
        THEN [timed EXCEPT !.result.status = "SUCESSO"]
        ELSE IF successful_uploads > 0
        THEN [timed EXCEPT
                 !.result.status = "SUCESSO_PARCIAL",
                 !.result.error_message =
                     Some(<< "Falhas em " >> \o Str(Len(failed_uploads)) \o << " uploads: " >>
                          \o ReprList(Take(failed_uploads, 3)))]
        ELSE [timed EXCEPT
                 !.result.status = "ERRO",
                 !.result.error_message = Some(<< "Nenhum arquivo foi enviado com sucesso" >>)]

\* the for statement asks for a member and the generator has none left: the
\* archive is closed and the loop ends, or the close raises into the handler
DoFinalize(cs, close) ==
    IF ~close.ok THEN HandleException(Tick(cs), ZipProcessingError(close.msg))
    ELSE IF cs.variant = "BP" THEN FinalizeBP(Tick(cs)) ELSE FinalizeSP(Tick(cs))

----------------------------------------------------------------------------
(* One call of process_single_file_streaming, step by step *)

ArchiveName(i) == << MemberStems[i], ".zip" >>
ObjectPrefix == "cnpq_lattes"

Idle == [pc |-> "idle"]
NoUpload == [pc |-> "idle"]
NoSummary == [pc |-> "idle"]
NoMain == [pc |-> "idle"]

InitOne ==
    /\ \E v \in Variants, a \in Archives(Listings(MaxMembers)) :
           call = NewCall(v, ArchiveName(1), a, ObjectPrefix)
    /\ up = NoUpload
    /\ store = { }
    /\ tasks = << >>
    /\ results = << >>
    /\ processed_count = 0
    /\ bpc = "idle"
    /\ progress = [given |-> FALSE, calls |-> << >>, raised |-> { }, by |-> << >>]
    /\ max_workers = 1
    /\ ledger = [exists |-> FALSE, rows |-> << >>]
    /\ summ = NoSummary
    /\ main = NoMain

BatchIdle ==
    UNCHANGED <<tasks, results, processed_count, bpc, progress, max_workers, ledger, summ, main>>

OnePrecheck ==
    /\ call.pc = "precheck"
    /\ call' = DoPrecheck(call)
    /\ UNCHANGED <<up, store>>
    /\ BatchIdle

OneStream ==
    /\ call.pc = "stream"
    /\ call' = DoStream(call)
    /\ UNCHANGED <<up, store>>
    /\ BatchIdle

OneRead ==
    /\ call.pc = "read"
    /\ \E r \in ReadOutcomes : call' = DoRead(call, r)
    /\ UNCHANGED <<up, store>>
    /\ BatchIdle

OneUpload ==
    /\ call.pc = "upload"
    /\ \E put \in LoopPutOutcomes :
          LET object_name == ObjectName(call.object_prefix, zip_base_name(call.zip_filename),
                                        call.xml_file.filename)
              u == upload_from_bytes(call.xml_file.content, object_name, put)
          IN  /\ call' = DoUpload(call, put)
              /\ store' = IF u.stored THEN PutObject(store, object_name, call.xml_file.content)
                          ELSE store
    /\ UNCHANGED up
    /\ BatchIdle

OneFinalize ==
    /\ call.pc = "finalize"
    /\ \E close \in CloseOutcomes : call' = DoFinalize(call, close)
    /\ UNCHANGED <<up, store>>
    /\ BatchIdle

NextOne == OnePrecheck \/ OneStream \/ OneRead \/ OneUpload \/ OneFinalize

SpecOne == InitOne /\ [][NextOne]_vars

----------------------------------------------------------------------------
(* stream_xml_files alone, consumed as list(stream_xml_files(zip_filename)).  *)
(* The archive has its bytes: every entry has a name, its data, and a check   *)
(* value that matches the data or does not.  Two entries may bear one name.   *)

ZipNames == { << "1", ".xml" >>, << "2", ".xml" >>, << "1", ".txt" >>, << "1", "/" >> }
ZipData == { << 7 >>, << 8 >> }
ZipEntries == [filename : ZipNames, data : ZipData, crc_ok : BOOLEAN]

ZipFile(entries) ==
    [exists |-> TRUE, valid |-> TRUE,
     infolist |-> [i \in 1..Len(entries) |-> entries[i].filename],
     entries |-> entries]

ZipFiles ==
    { [exists |-> FALSE, valid |-> FALSE, infolist |-> << >>, entries |-> << >>],
      [exists |-> TRUE, valid |-> FALSE, infolist |-> << >>, entries |-> << >>] }
    \cup { ZipFile(es) : es \in UNION { [1..k -> ZipEntries] : k \in 0..MaxEntries } }

\* ZipFile.getinfo(name): NameToInfo holds the last entry that bears the name
getinfo(archive, name) ==
    LET named == { i \in 1..Len(archive.entries) : archive.entries[i].filename = name }
    IN  archive.entries[CHOOSE i \in named : \A j \in named : j <= i]

\* zip_ref.read(xml_info.filename): the entry is looked up by its name
zip_read(archive, name) ==
    LET entry == getinfo(archive, name)
    IN  IF entry.crc_ok THEN [ok |-> TRUE, content |-> entry.data]
        ELSE [ok |-> FALSE, content |-> << >>]

InitList ==
    /\ \E archive \in ZipFiles :
          call = [pc |-> "stream", zip_filename |-> ArchiveName(1), archive |-> archive,
                  xml_files |-> << >>, idx |-> 0, xml_file |-> XMLFileStream(<< >>, << >>, 0),
                  out |-> << >>, log |-> << >>, now |-> 0, exc |-> None]
    /\ up = NoUpload
    /\ store = { }
    /\ tasks = << >>
    /\ results = << >>
    /\ processed_count = 0
    /\ bpc = "idle"
    /\ progress = [given |-> FALSE, calls |-> << >>, raised |-> { }, by |-> << >>]
    /\ max_workers = 1
    /\ ledger = [exists |-> FALSE, rows |-> << >>]
    /\ summ = NoSummary
    /\ main = NoMain

\* list() asks for the first member: the generator runs up to its first read
ListOpen ==
    /\ call.pc = "stream"
    /\ LET g == stream_xml_files(call.zip_filename, call.archive)
       IN  call' = IF g.raised THEN [call EXCEPT !.pc = "raised", !.exc = Some(g.msg)]
                   ELSE NextMember([call EXCEPT !.xml_files = g.xml_files, !.idx = 0])
    /\ UNCHANGED <<up, store>>
    /\ BatchIdle

\* the generator's loop body for the member at idx
ListRead ==
    /\ call.pc = "read"
    /\ call' = DoRead(call, zip_read(call.archive, call.xml_files[call.idx]))
    /\ UNCHANGED <<up, store>>
    /\ BatchIdle

\* list() appends the member yielded and asks for the next
ListTake ==
    /\ call.pc = "upload"
    /\ call' = NextMember([call EXCEPT !.out = Append(@, call.xml_file)])
    /\ UNCHANGED <<up, store>>
    /\ BatchIdle

\* list() asks once more and the generator has no member left: the archive is
\* closed and the list is complete, or the close raises ZipProcessingError
ListClose ==
    /\ call.pc = "finalize"
    /\ \E close \in CloseOutcomes :
          call' = IF close.ok THEN [call EXCEPT !.pc = "done"]
                  ELSE [call EXCEPT !.pc = "raised",
                                    !.exc = Some(ZipProcessingError(close.msg))]
    /\ UNCHANGED <<up, store>>
    /\ BatchIdle

NextList == ListOpen \/ ListRead \/ ListTake \/ ListClose

SpecList == InitList /\ [][NextList]_vars

----------------------------------------------------------------------------
(* upload_from_bytes alone: calls with any content against a bucket *)

UploadContents == UNION { [1..k -> { 7 }] : k \in 0..MaxLen }
UploadNames == { ObjectName(ObjectPrefix, << "1" >>, EntryName(i, ".xml")) : i \in 1..2 }

InitUpload ==
    /\ call = Idle
    /\ up = NoUpload
    /\ store = { }
    /\ tasks = << >>
    /\ results = << >>
    /\ processed_count = 0
    /\ bpc = "idle"
    /\ progress = [given |-> FALSE, calls |-> << >>, raised |-> { }, by |-> << >>]
    /\ max_workers = 1
    /\ ledger = [exists |-> FALSE, rows |-> << >>]
    /\ summ = NoSummary
    /\ main = NoMain

UploadCall ==
    /\ \E content \in UploadContents, object_name \in UploadNames, put \in PutOutcomes :
          LET u == upload_from_bytes(content, object_name, put)
          IN  /\ up' = [pc |-> IF u.raised THEN "raised" ELSE "returned",
                        content |-> content, object_name |-> object_name,
                        put_called |-> u.put_called,
                        put |-> IF u.put_called THEN put ELSE [kind |-> "none", msg |-> << >>],
                        ret |-> u.ret, before |-> store]
              /\ store' = IF u.stored THEN PutObject(store, object_name, content) ELSE store
    /\ UNCHANGED call
    /\ BatchIdle

NextUpload == UploadCall

SpecUpload == InitUpload /\ [][NextUpload]_vars

----------------------------------------------------------------------------
(* One call of process_single_file_streaming as a whole, as a worker runs it *)

Unused == [kind |-> "ok", msg |-> << >>]

\* what the environment does for one XML member: the read, and the put if one is made
MemberOutcomes ==
    { [read |-> r, put |-> Unused] : r \in { x \in ReadOutcomes : Len(x.content) = 0 } }
    \cup { [read |-> r, put |-> p] : r \in { x \in ReadOutcomes : Len(x.content) > 0 },
                                     p \in LoopPutOutcomes }

\* what the environment does during one call: for every XML member, and at the
\* close of the archive
Scripts(archive) ==
    [members : [1..Len(SelectSeq(archive.infolist, IsXmlInfo)) -> MemberOutcomes],
     close : CloseOutcomes]

StepCall(cs, script) ==
    IF cs.pc = "precheck" THEN DoPrecheck(cs)
    ELSE IF cs.pc = "stream" THEN DoStream(cs)
    ELSE IF cs.pc = "read" THEN DoRead(cs, script.members[cs.idx].read)
    ELSE IF cs.pc = "upload" THEN DoUpload(cs, script.members[cs.idx].put)
    ELSE DoFinalize(cs, script.close)

RECURSIVE RunCall(_, _)
RunCall(cs, script) ==
    IF cs.pc \in { "done", "raised" } THEN cs ELSE RunCall(StepCall(cs, script), script)

RECURSIVE StoreAll(_, _)
\* the bucket after the puts of a call that completed
StoreAll(bucket, log) ==
    IF log = << >> THEN bucket
    ELSE StoreAll(IF log[1].success
                  THEN PutObject(bucket, log[1].object_name, log[1].content)
                  ELSE bucket, Tail(log))

----------------------------------------------------------------------------
(* BatchProcessor.process_batch_streaming *)

NoResult == [status |-> "none"]

\* the archives of a batch: missing, invalid, empty, or holding one entry (the
\* fold over longer listings is the subject of SpecOne)
BatchListings == { << >> } \cup { << e >> : e \in EntryExts }

\* _batch_result_to_dict
Row(result) ==
    [zip_filename |-> result.zip_filename, status |-> result.status,
     xml_files_processed |-> result.xml_files_processed,
     uploaded_objects_count |-> Len(result.uploaded_objects),
     uploaded_objects |-> Join(<< "," >>, result.uploaded_objects),
     processing_time_seconds |-> result.processing_time_seconds,
     error_message |-> result.error_message]

\* A cell of a DataFrame that holds text or nothing: None and NaN are both
\* "missing" (na), written by to_csv as an empty field; read_csv reads an empty
\* field as NaN.  A field of the file is the text between two commas.
Cell(na, text) == [na |-> na, text |-> text]

\* pd.DataFrame(results), and the timestamp column
DataFrame(rows, timestamp) ==
    [k \in 1..Len(rows) |->
        [zip_filename |-> rows[k].zip_filename, status |-> rows[k].status,
         xml_files_processed |-> rows[k].xml_files_processed,
         uploaded_objects_count |-> rows[k].uploaded_objects_count,
         uploaded_objects |-> Cell(FALSE, rows[k].uploaded_objects),
         processing_time_seconds |-> rows[k].processing_time_seconds,
         error_message |-> IF rows[k].error_message = None THEN Cell(TRUE, << >>)
                           ELSE Cell(FALSE, rows[k].error_message[1]),
         timestamp |-> timestamp]]

\* pd.read_csv: the lines of the file, parsed
read_csv(lines) ==
    [k \in 1..Len(lines) |->
        [lines[k] EXCEPT !.uploaded_objects = Cell(@ = << >>, @),
                         !.error_message = Cell(@ = << >>, @)]]

\* DataFrame.to_csv(index=False): the lines written
to_csv(df) ==
    [k \in 1..Len(df) |->
        [df[k] EXCEPT !.uploaded_objects = IF @.na THEN << >> ELSE @.text,
                      !.error_message = IF @.na THEN << >> ELSE @.text]]

\* variant of save_processing_results: the file is written from the new rows alone
save_processing_results_Overwrites(file, rows, timestamp) ==
    [exists |-> TRUE, rows |-> to_csv(DataFrame(rows, timestamp))]

\* save_processing_results when nothing fails: the file it leaves
save_processing_results(file, rows, timestamp) ==
    LET new_df == DataFrame(rows, timestamp)
        combined_df == IF file.exists THEN read_csv(file.rows) \o new_df ELSE new_df
    IN  [exists |-> TRUE, rows |-> to_csv(combined_df)]

\* a ledger a previous run has left
OldResult == BatchResult(<< "0", ".zip" >>, "ERRO", 0, << >>, 1, Some(<< "old" >>))
OldLedger == save_processing_results([exists |-> FALSE, rows |-> << >>],
                                     << Row(OldResult) >>, "before")

\* Threads.  The thread that called process_batch_streaming, and the pool thread
\* that runs the work item of the i-th archive, named by the item: a pool thread
\* that runs several items carries several names, none of them the caller's.
CallerThread == << "caller" >>
WorkerThread(i) == << "pool", i >>

\* uploads: the upload_from_bytes calls the future's call has made.
\* state: "pending", "running", then "finished" when the call ended before
\* as_completed was entered and "done" when it ended later, then "collected";
\* seq is the place of a "done" future in the waiter's list of finished futures.
Future(zip_filename) ==
    [zip_filename |-> zip_filename, state |-> "pending", exists |-> TRUE,
     raised |-> FALSE, error |-> << >>, result |-> NoResult, uploads |-> << >>,
     seq |-> 0]

\* the entry of process_batch_streaming, with a progress callback or without
InitBatch(given) ==
    /\ call = Idle
    /\ up = NoUpload
    /\ store = { }
    /\ \E n \in 0..MaxArchives : tasks = [i \in 1..n |-> Future(ArchiveName(i))]
    /\ results = << >>
    /\ processed_count = 0
    /\ bpc = "submitted"
    /\ progress = [given |-> given, calls |-> << >>, raised |-> { }, by |-> << >>]
    /\ max_workers \in 1..MaxWorkers
    /\ ledger = OldLedger
    /\ summ = NoSummary
    /\ main = NoMain

\* the call main makes: no progress callback
Init == InitBatch(FALSE)

Running == { i \in 1..Len(tasks) : tasks[i].state = "running" }

\* a pool thread takes the next queued work item
WorkerStart(i) ==
    /\ tasks[i].state = "pending"
    /\ \A j \in 1..(i - 1) : tasks[j].state # "pending"
    /\ Cardinality(Running) < max_workers
    /\ tasks' = [tasks EXCEPT ![i].state = "running"]
    /\ UNCHANGED <<call, up, store, results, processed_count, bpc, progress, max_workers,
                   ledger>>
    /\ UNCHANGED <<summ, main>>

WasUploaded(e) == e.read_ok

\* the upload_from_bytes calls of a history, in order: the member and the object name
UploadsOf(log) ==
    LET issued == SelectSeq(log, WasUploaded)
    IN  [k \in 1..Len(issued) |-> [filename |-> issued[k].filename,
                                    object_name |-> issued[k].object_name]]

\* the waiter's finished_futures: the futures set since as_completed was entered
\* and not handed over yet
Waiting == SelectSeq(tasks, LAMBDA f : f.state = "done")

\* the pool thread runs process_single_file_streaming to its end and sets the future
WorkerFinish(i) ==
    /\ tasks[i].state = "running"
    /\ \E a \in Archives(BatchListings) : \E script \in Scripts(a) :
          LET cs == RunCall(NewCall("BP", tasks[i].zip_filename, a, ObjectPrefix), script)
          IN  /\ tasks' = [tasks EXCEPT ![i].state = IF bpc = "submitted" THEN "finished"
                                                     ELSE "done",
                                        ![i].seq = IF bpc = "submitted" THEN 0
                                                   ELSE Len(Waiting) + 1,
                                        ![i].exists = a.exists,
                                        ![i].raised = (cs.pc = "raised"),
                                        ![i].error = Fmt(cs.exc),
                                        ![i].result = cs.result,
                                        ![i].uploads = UploadsOf(cs.log)]
              /\ store' = StoreAll(store, cs.log)
    /\ UNCHANGED <<call, up, results, processed_count, bpc, progress, max_workers, ledger>>
    /\ UNCHANGED <<summ, main>>

\* the except branch of the collection loop
error_result(zip_filename, msg) == BatchResult(zip_filename, "ERRO", 0, << >>, 0, Some(msg))

CallbackError == << "callback failed" >>

\* variant of CallbackRun: the callback is run by the pool thread, as a done
\* callback of the future would be
CallbackRun_OnWorker(i) == [archive |-> i, thread |-> WorkerThread(i)]

\* progress_callback(processed_count, total_files) is a statement of the
\* as_completed loop: it runs on the thread that runs the loop
CallbackRun(i) == [archive |-> i, thread |-> CallerThread]

\* the for statement calls as_completed: the futures that are finished by now
\* are put in a set
AsCompleted ==
    /\ bpc = "submitted"
    /\ bpc' = "collect"
    /\ UNCHANGED <<call, up, store, tasks, results, processed_count, progress, max_workers,
                   ledger>>
    /\ UNCHANGED <<summ, main>>

\* the future as_completed yields next: any member of the set of futures that
\* had finished when it was entered, and when that set is used up the futures
\* set since, in the order they were set in
IsNextCompleted(i) ==
    \/ tasks[i].state = "finished"
    \/ /\ tasks[i].state = "done"
       /\ \A j \in 1..Len(tasks) : tasks[j].state # "finished"
       /\ \A j \in 1..Len(tasks) : tasks[j].state = "done" => tasks[i].seq <= tasks[j].seq

\* the future that was handed over leaves the waiter's list
Yielded(fs, i) ==
    [j \in 1..Len(fs) |->
        IF j = i THEN [fs[j] EXCEPT !.state = "collected", !.seq = 0]
        ELSE IF fs[j].state = "done" /\ fs[i].state = "done"
             THEN [fs[j] EXCEPT !.seq = @ - 1]
             ELSE fs[j]]

\* as_completed hands over a finished future: future.result() returns and the
\* try body runs to its end, or it raises and the except branch runs
Collect(i) ==
    /\ bpc = "collect"
    /\ IsNextCompleted(i)
    /\ tasks' = Yielded(tasks, i)
    /\ results' = IF tasks[i].raised
                  THEN Append(results, error_result(tasks[i].zip_filename, tasks[i].error))
                  ELSE Append(results, tasks[i].result)
    /\ processed_count' = processed_count + 1
    /\ progress' = IF progress.given /\ ~tasks[i].raised
                   THEN [progress EXCEPT !.calls = Append(@, << processed_count + 1,
                                                             Len(tasks) >>),
                                         !.by = Append(@, CallbackRun(i))]
                   ELSE progress
    /\ UNCHANGED <<call, up, store, bpc, max_workers, ledger>>
    /\ UNCHANGED <<summ, main>>

\* the same, and the progress callback raises: the except branch runs as well
CollectCallbackRaises(i) ==
    /\ bpc = "collect"
    /\ IsNextCompleted(i)
    /\ ~tasks[i].raised
    /\ progress.given
    /\ tasks' = Yielded(tasks, i)
    /\ results' = Append(Append(results, tasks[i].result),
                         error_result(tasks[i].zip_filename, CallbackError))
    /\ processed_count' = processed_count + 2
    /\ progress' = [progress EXCEPT !.calls = Append(@, << processed_count + 1, Len(tasks) >>),
                                    !.by = Append(@, CallbackRun(i)),
                                    !.raised = @ \cup { i }]
    /\ UNCHANGED <<call, up, store, bpc, max_workers, ledger>>
    /\ UNCHANGED <<summ, main>>

\* variant of AllCollected: the loop is left after the first future
AllCollected_FirstOnly ==
    Len(tasks) = 0 \/ \E i \in 1..Len(tasks) : tasks[i].state = "collected"

\* variant of AllCollected: the pool is not waited for, the loop is left as soon
\* as every work item has been taken by a thread
AllCollected_NotJoined == \A i \in 1..Len(tasks) : tasks[i].state # "pending"

AllCollected == \A i \in 1..Len(tasks) : tasks[i].state = "collected"

\* the pool is shut down, the ledger is written and the list returned
SaveAndReturn ==
    /\ bpc = "collect"
    /\ AllCollected
    /\ ledger' = save_processing_results(ledger, [k \in 1..Len(results) |-> Row(results[k])],
                                          "now")
    /\ bpc' = "returned"
    /\ UNCHANGED <<call, up, store, tasks, results, processed_count, progress, max_workers>>
    /\ UNCHANGED <<summ, main>>

\* save_processing_results raises MetadataError, which leaves process_batch_streaming
SaveRaises ==
    /\ bpc = "collect"
    /\ AllCollected
    /\ bpc' = "raised"
    /\ UNCHANGED <<call, up, store, tasks, results, processed_count, progress, max_workers,
                   ledger>>
    /\ UNCHANGED <<summ, main>>

Next ==
    \/ \E i \in 1..Len(tasks) : WorkerStart(i)
    \/ \E i \in 1..Len(tasks) : WorkerFinish(i)
    \/ AsCompleted
    \/ \E i \in 1..Len(tasks) : Collect(i)
    \/ SaveAndReturn
    \/ SaveRaises

Spec == Init /\ [][Next]_vars

\* the same batch, handed a progress callback that returns
InitProgress == InitBatch(TRUE)

SpecProgress == InitProgress /\ [][Next]_vars

\* the same batch, handed a progress callback that may raise
InitCallback == InitBatch(TRUE)

NextCallback ==
    \/ Next
    \/ \E i \in 1..Len(tasks) : CollectCallbackRaises(i)

SpecCallback == InitCallback /\ [][NextCallback]_vars

----------------------------------------------------------------------------
(* The two processors side by side.  BatchProcessor with a pool of one thread *)
(* and StreamingBatchProcessor are given the same list of archives, and the   *)
(* environment does the same for an archive in both: the same listing, the    *)
(* same outcome of every read, every put and the close.  call is the frame of *)
(* StreamingBatchProcessor.process_batch_streaming.                           *)

\* one turn of the sequential loop: the archive's result is appended
SequentialTurn(frame, zip_file, archive, script) ==
    LET cs == RunCall(NewCall("SP", zip_file, archive, ObjectPrefix), script)
    IN  [frame EXCEPT !.i = @ + 1,
                      !.results = Append(@, IF cs.pc = "raised"
                                            THEN error_result(zip_file, Fmt(cs.exc))
                                            ELSE cs.result)]

InitSideBySide ==
    /\ call = [pc |-> "loop", i |-> 0, results |-> << >>]
    /\ up = NoUpload
    /\ store = { }
    /\ \E n \in 0..MaxArchives : tasks = [i \in 1..n |-> Future(ArchiveName(i))]
    /\ results = << >>
    /\ processed_count = 0
    /\ bpc = "submitted"
    /\ progress = [given |-> FALSE, calls |-> << >>, raised |-> { }, by |-> << >>]
    /\ max_workers = 1
    /\ ledger = OldLedger
    /\ summ = NoSummary
    /\ main = NoMain

\* the archive i is processed by both: the pool thread ends its call and sets
\* the future, the sequential loop ends its turn
BothFinish(i) ==
    /\ tasks[i].state = "running"
    /\ call.i = i - 1
    /\ \E a \in Archives(BatchListings) : \E script \in Scripts(a) :
          LET cs == RunCall(NewCall("BP", tasks[i].zip_filename, a, ObjectPrefix), script)
          IN  /\ tasks' = [tasks EXCEPT ![i].state = IF bpc = "submitted" THEN "finished"
                                                     ELSE "done",
                                        ![i].seq = IF bpc = "submitted" THEN 0
                                                   ELSE Len(Waiting) + 1,
                                        ![i].exists = a.exists,
                                        ![i].raised = (cs.pc = "raised"),
                                        ![i].error = Fmt(cs.exc),
                                        ![i].result = cs.result,
                                        ![i].uploads = UploadsOf(cs.log)]
              /\ store' = StoreAll(store, cs.log)
              /\ call' = SequentialTurn(call, tasks[i].zip_filename, a, script)
    /\ UNCHANGED <<up, results, processed_count, bpc, progress, max_workers, ledger>>
    /\ UNCHANGED <<summ, main>>

NextSideBySide ==
    \/ \E i \in 1..Len(tasks) : WorkerStart(i)
    \/ \E i \in 1..Len(tasks) : BothFinish(i)
    \/ AsCompleted
    \/ \E i \in 1..Len(tasks) : Collect(i)
    \/ SaveAndReturn
    \/ SaveRaises

SpecSideBySide == InitSideBySide /\ [][NextSideBySide]_vars

----------------------------------------------------------------------------
(* Floats.  A Python float is a binary floating-point number: an addition    *)
(* returns the exact sum rounded to the nearest representable value, ties to *)
(* even.  The model keeps the rounding and shortens the significand to       *)
(* FloatBits bits; a time is a whole number of clock quanta.  A quotient is  *)
(* kept as the pair it is computed from; den = 0 is ZeroDivisionError.       *)

RECURSIVE Ulp(_)
\* the gap between representable values around x
Ulp(x) == IF x < 2 ^ FloatBits THEN 1 ELSE 2 * Ulp(x \div 2)

\* round to nearest, ties to even
RoundFloat(x) ==
    LET u == Ulp(x)
        q == x \div u
        r == x % u
    IN  IF 2 * r < u THEN q * u
        ELSE IF 2 * r > u THEN (q + 1) * u
        ELSE IF q % 2 = 0 THEN q * u ELSE (q + 1) * u

\* a + b of two floats
fadd(a, b) == RoundFloat(a + b)

\* a / b
Div(a, b) == [num |-> a, den |-> b]
\* x * 100
Times100(x) == [num |-> 100 * x.num, den |-> x.den]
\* the literal 0.0 and a float used where a quotient may stand
FloatZero == [num |-> 0, den |-> 1]
AsFloat(x) == [num |-> x, den |-> 1]

\* f"{x:.2f}"
Fmt2f(x) == IF x.num = 0 THEN << "0.00" >> ELSE << "%.2f", x.num, x.den >>

RECURSIVE FloatSum(_)
\* sum() over floats: accumulates from the left, starting from 0
FloatSum(xs) ==
    IF xs = << >> THEN 0 ELSE fadd(FloatSum(SubSeq(xs, 1, Len(xs) - 1)), xs[Len(xs)])

\* variant of IntSum: the accumulator is assigned, not added to
IntSum_LastWins(xs) ==
    IF xs = << >> THEN 0 ELSE xs[Len(xs)]

RECURSIVE IntSum(_)
\* sum() over ints
IntSum(xs) ==
    IF xs = << >> THEN 0 ELSE IntSum(SubSeq(xs, 1, Len(xs) - 1)) + xs[Len(xs)]

----------------------------------------------------------------------------
(* get_batch_summary, get_streaming_batch_summary, get_results_summary_text *)

IsSuccessful(r) == r.status \in { "SUCESSO", "SUCESSO_PARCIAL" }
IsErro(r) == r.status = "ERRO"
IsSucesso(r) == r.status = "SUCESSO"

\* the return of a summary: the dict, or ZeroDivisionError
Summary(value) == [raised |-> FALSE, value |-> value]
DivisionRaised == [raised |-> TRUE, value |-> [total_files |-> 0]]

\* variant of get_batch_summary: the empty input is not singled out
get_batch_summary_NoEmptyCase(rs) ==
    LET n == Len(rs)
        successful == SelectSeq(rs, IsSuccessful)
        failed == SelectSeq(rs, IsErro)
        total_processing_time == FloatSum([i \in 1..n |-> rs[i].processing_time_seconds])
    IN  Summary([total_files |-> n,
                 successful |-> Len(successful),
                 failed |-> Len(failed),
                 total_xml_files_processed |->
                     IntSum([i \in 1..n |-> rs[i].xml_files_processed]),
                 total_processing_time_seconds |-> AsFloat(total_processing_time),
                 average_processing_time_per_file |->
                     IF n # 0 THEN Div(total_processing_time, n) ELSE FloatZero,
                 success_rate_percent |->
                     IF n # 0 THEN Times100(Div(Len(successful), n)) ELSE FloatZero])

\* variant of get_batch_summary: the rate is left a fraction
get_batch_summary_Fraction(rs) ==
    IF rs = << >> THEN Summary([total_files |-> 0])
    ELSE [get_batch_summary_NoEmptyCase(rs) EXCEPT
             !.value.success_rate_percent =
                 Div(Len(SelectSeq(rs, IsSuccessful)), Len(rs))]

\* variant of get_batch_summary: only SUCESSO counts as successful
get_batch_summary_FullOnly(rs) ==
    IF rs = << >> THEN Summary([total_files |-> 0])
    ELSE [get_batch_summary_NoEmptyCase(rs) EXCEPT
             !.value.successful = Len(SelectSeq(rs, IsSucesso))]

get_batch_summary(rs) ==
    IF rs = << >> THEN Summary([total_files |-> 0])
    ELSE LET n == Len(rs)
             successful == SelectSeq(rs, IsSuccessful)
             failed == SelectSeq(rs, IsErro)
             total_xml_files == IntSum([i \in 1..n |-> rs[i].xml_files_processed])
             total_processing_time ==
                 FloatSum([i \in 1..n |-> rs[i].processing_time_seconds])
         IN  Summary([total_files |-> n,
                      successful |-> Len(successful),
                      failed |-> Len(failed),
                      total_xml_files_processed |-> total_xml_files,
                      total_processing_time_seconds |-> AsFloat(total_processing_time),
                      average_processing_time_per_file |->
                          IF n # 0 THEN Div(total_processing_time, n) ELSE FloatZero,
                      success_rate_percent |->
                          IF n # 0 THEN Times100(Div(Len(successful), n)) ELSE FloatZero])

get_streaming_batch_summary(rs) ==
    IF rs = << >> THEN Summary([total_files |-> 0])
    ELSE LET n == Len(rs)
             successful == SelectSeq(rs, IsSuccessful)
             failed == SelectSeq(rs, IsErro)
             total_xml_files == IntSum([i \in 1..n |-> rs[i].xml_files_processed])
             total_bytes == IntSum([i \in 1..n |-> rs[i].total_bytes_uploaded])
             total_processing_time ==
                 FloatSum([i \in 1..n |-> rs[i].processing_time_seconds])
         IN  IF n = 0 THEN DivisionRaised
             ELSE Summary([total_files |-> n,
                           successful |-> Len(successful),
                           failed |-> Len(failed),
                           total_xml_files_processed |-> total_xml_files,
                           total_bytes_uploaded |-> total_bytes,
                           total_bytes_uploaded_mb |-> Div(total_bytes, 1024 * 1024),
                           total_processing_time_seconds |-> AsFloat(total_processing_time),
                           average_processing_time_per_file |-> Div(total_processing_time, n),
                           success_rate_percent |-> Times100(Div(Len(successful), n)),
                           average_bytes_per_file |->
                               IF n > 0 THEN Div(total_bytes, n) ELSE FloatZero])

\* dict.get(key, default)
Get(d, key, default) == IF key \in DOMAIN d THEN d[key] ELSE default

\* the lines of the report, one per reported value: its label and its text
get_results_summary_text(summary_dict) ==
    << << "Total de arquivos processados: ", Get(summary_dict, "total_files", 0) >>,
       << "Arquivos com sucesso: ", Get(summary_dict, "successful", 0) >>,
       << "Arquivos com erro: ", Get(summary_dict, "failed", 0) >>,
       << "Total de XMLs enviados para a nuvem: ",
          Get(summary_dict, "total_xml_files_processed", 0) >>,
       << "Tempo total de processamento (s): " >>
           \o Fmt2f(Get(summary_dict, "total_processing_time_seconds", FloatZero)),
       << "Tempo medio por arquivo (s): " >>
           \o Fmt2f(Get(summary_dict, "average_processing_time_per_file", FloatZero)),
       << "Taxa de sucesso (%): " >>
           \o Fmt2f(Get(summary_dict, "success_rate_percent", FloatZero)) >>

----------------------------------------------------------------------------
(* A summary call on any result list, and on a reordering of the same list *)

\* elapsed times: one quantum, and the least value whose neighbours are more
\* than one quantum apart
TimeValues == { 1, 2 ^ FloatBits }

UploadedNames(i, n) == [j \in 1..n |-> ObjectName(ObjectPrefix, << MemberStems[i] >>,
                                                     EntryName(j, ".xml"))]

\* the results process_single_file_streaming returns, by status and count
ResultShapes ==
    { [status |-> "ERRO", n |-> 0], [status |-> "SUCESSO", n |-> 1],
      [status |-> "SUCESSO", n |-> 2], [status |-> "SUCESSO_PARCIAL", n |-> 1] }

ResultOf(variant, i, shape, time) ==
    IF variant = "BP"
    THEN BatchResult(ArchiveName(i), shape.status, shape.n, UploadedNames(i, shape.n), time,
                     IF shape.status = "SUCESSO" THEN None ELSE Some(<< "boom" >>))
    ELSE StreamingBatchResult(ArchiveName(i), shape.status, shape.n, UploadedNames(i, shape.n),
                              shape.n, time,
                              IF shape.status = "SUCESSO" THEN None ELSE Some(<< "boom" >>))

Injective(f) == \A a, b \in DOMAIN f : f[a] = f[b] => a = b
Perms(n) == { f \in [1..n -> 1..n] : Injective(f) }

Summarize(variant, rs) ==
    IF variant = "BP" THEN get_batch_summary(rs) ELSE get_streaming_batch_summary(rs)

InitSummary ==
    /\ call = Idle
    /\ up = NoUpload
    /\ store = { }
    /\ tasks = << >>
    /\ results = << >>
    /\ processed_count = 0
    /\ bpc = "idle"
    /\ progress = [given |-> FALSE, calls |-> << >>, raised |-> { }, by |-> << >>]
    /\ max_workers = 1
    /\ ledger = [exists |-> FALSE, rows |-> << >>]
    /\ \E v \in Variants, n \in 0..MaxResults :
         \E shapes \in [1..n -> ResultShapes], times \in [1..n -> TimeValues] :
            summ = [pc |-> "called", variant |-> v,
                    results |-> [i \in 1..n |-> ResultOf(v, i, shapes[i], times[i])]]
    /\ main = NoMain

SummaryCall ==
    /\ summ.pc = "called"
    /\ \E p \in Perms(Len(summ.results)) :
          LET permuted == [i \in 1..Len(summ.results) |-> summ.results[p[i]]]
              out == Summarize(summ.variant, summ.results)
          IN  summ' = [pc |-> IF out.raised THEN "raised" ELSE "returned",
                       variant |-> summ.variant,
                       results |-> summ.results,
                       permuted |-> permuted,
                       out |-> out.value,
                       out_permuted |-> Summarize(summ.variant, permuted).value,
                       text |-> get_results_summary_text(out.value)]
    /\ UNCHANGED <<call, up, store, tasks, results, processed_count, bpc, progress,
                   max_workers, ledger, main>>

NextSummary == SummaryCall

SpecSummary == InitSummary /\ [][NextSummary]_vars

----------------------------------------------------------------------------
(* main of main_batch.py.  A path is the text str(Path) gives: the           *)
(* directory, "/", and the file name.                                        *)

\* ssd.path of the configuration: absolute or relative to the working directory.
\* The zip processor opens Path(ssd_path) / zip_filename: the file itself when
\* zip_filename is absolute, a path under ssd_path again when it is relative;
\* what is found there is the archive the worker's call is given.
SsdPaths == { "/ssd", "ssd" }

\* FileManager.load_all_zip_files: str(p) of every .zip file under base_dir
load_all_zip_files(base_dir, n) == [i \in 1..n |-> << base_dir, "/" >> \o ArchiveName(i)]

\* FileValidator.validate_zip_filename (the name is a non-empty str)
validate_zip_filename(filename) == Len(filename) > 0 /\ filename[Len(filename)] = ".zip"

\* FileValidator.filter_valid_zip_files
filter_valid_zip_files(filenames) == SelectSeq(filenames, validate_zip_filename)

CeilDiv(a, b) == (a + b - 1) \div b

Min(a, b) == IF a < b THEN a ELSE b

\* list(create_batches(items, batch_size))
create_batches(items, batch_size) ==
    [k \in 1..CeilDiv(Len(items), batch_size) |->
        SubSeq(items, (k - 1) * batch_size + 1, Min(k * batch_size, Len(items)))]

MetadataErrorText == << "Nao foi possivel salvar resultados: ", "disk full" >>
FatalText(msg) == << "Erro fatal na aplicacao de lote: " >> \o msg

\* A call that returns or raises
Ok == [raised |-> FALSE, type |-> "", msg |-> << >>]
Raise(type, msg) == [raised |-> TRUE, type |-> type, msg |-> msg]

\* processing.batch_size and processing.max_workers of config.yaml: a key that
\* is absent is None in ProcessingConfig, a key that is present holds an int
ConfigValues(n) == { None } \cup { Some(v) : v \in 0..n }

\* the environment of the run: the directories and files validate_config looks
\* for, and what the construction of the object-store client meets
Environments ==
    [ssd_exists : BOOLEAN, oci_config_exists : BOOLEAN,
     oci : { "ok", "config", "service", "network" }]

\* ConfigLoader.validate_config
validate_config(config, env) ==
    IF ~env.ssd_exists
    THEN Raise("ConfigurationError", << "Diretorio SSD nao encontrado: ", config.ssd_path >>)
    ELSE IF ~env.oci_config_exists
    THEN Raise("ConfigurationError", << "Arquivo de configuracao OCI nao encontrado" >>)
    ELSE IF config.batch_size # None /\ config.batch_size[1] <= 0
    THEN Raise("ConfigurationError", << "batch_size deve ser maior que zero" >>)
    ELSE IF config.max_workers # None /\ config.max_workers[1] <= 0
    THEN Raise("ConfigurationError", << "max_workers deve ser maior que zero" >>)
    ELSE Ok

\* StreamingOCIClient._verify_connectivity: get_bucket returns, raises
\* ServiceError, or raises something else
verify_connectivity(oci) ==
    IF oci = "service"
    THEN Raise("OCIConnectionError", << "Erro de conectividade OCI: ", "NotAuthorizedOrNotFound" >>)
    ELSE IF oci = "network" THEN Raise("ConnectTimeout", << "timed out" >>)
    ELSE Ok

\* variant of StreamingOCIClient.__init__: the bucket is not asked for
StreamingOCIClient_init_NoCheck(oci) ==
    IF oci = "config"
    THEN Raise("OCIConnectionError",
               << "Erro ao inicializar cliente OCI: ", "config file is invalid" >>)
    ELSE Ok

\* StreamingOCIClient.__init__: the configuration file is read, the client is
\* made and the bucket is asked for; whatever is raised becomes OCIConnectionError
StreamingOCIClient_init(oci) ==
    IF oci = "config"
    THEN Raise("OCIConnectionError",
               << "Erro ao inicializar cliente OCI: ", "config file is invalid" >>)
    ELSE IF verify_connectivity(oci).raised
    THEN Raise("OCIConnectionError",
               << "Erro ao inicializar cliente OCI: " >> \o verify_connectivity(oci).msg)
    ELSE Ok

\* the width of ThreadPoolExecutor(max_workers=None): min(32, cpu_count + 4)
DefaultPoolWidth == 5

\* main's except branch: e is bound, printed, and the process exits with 1
Fatal(frame, e) ==
    [frame EXCEPT !.pc = "exited", !.exit_code = Some(1), !.error = Some(e.type),
                  !.console = Append(@, FatalText(e.msg))]

\* main's frame: i is the number of batches taken from the generator, report the
\* text of batch_processing_report.txt, console what main has printed
InitMain ==
    /\ call = Idle
    /\ up = NoUpload
    /\ summ = NoSummary
    /\ store = { }
    /\ tasks = << >>
    /\ results = << >>
    /\ processed_count = 0
    /\ bpc = "idle"
    /\ progress = [given |-> FALSE, calls |-> << >>, raised |-> { }, by |-> << >>]
    /\ max_workers = 0
    /\ ledger \in { [exists |-> FALSE, rows |-> << >>], OldLedger }
    /\ \E ssd_path \in SsdPaths, n \in 0..MaxFiles, env \in Environments,
          batch_size \in ConfigValues(MaxBatchSize), workers \in ConfigValues(MaxWorkers) :
          main = [pc |-> "config", env |-> env, on_disk |-> n,
                  config |-> [ssd_path |-> ssd_path, batch_size |-> batch_size,
                              max_workers |-> workers],
                  client |-> FALSE, pipeline |-> FALSE,
                  valid_files |-> << >>, batches |-> << >>,
                  i |-> 0, all_results |-> << >>, report |-> None, console |-> << >>,
                  exit_code |-> None, error |-> None]

\* steps 1 and 2: the configuration is loaded and validated
MainConfigure ==
    /\ main.pc = "config"
    /\ LET v == validate_config(main.config, main.env)
       IN  main' = IF v.raised THEN Fatal(main, v)
                   ELSE [main EXCEPT !.pc = "components"]
    /\ UNCHANGED <<call, up, store, tasks, results, processed_count, bpc, progress,
                   max_workers, ledger, summ>>

\* step 3: the zip processor, the object-store client, the file manager and the
\* BatchProcessor are constructed
MainComponents ==
    /\ main.pc = "components"
    /\ LET c == StreamingOCIClient_init(main.env.oci)
       IN  IF c.raised
           THEN /\ main' = Fatal(main, c)
                /\ UNCHANGED max_workers
           ELSE /\ main' = [main EXCEPT !.pc = "load", !.client = TRUE, !.pipeline = TRUE]
                /\ max_workers' = IF main.config.max_workers = None THEN DefaultPoolWidth
                                  ELSE main.config.max_workers[1]
    /\ UNCHANGED <<call, up, store, tasks, results, processed_count, bpc, progress,
                   ledger, summ>>

\* step 4: the file list is loaded and filtered; main exits when it is empty,
\* and the number of batches is computed from batch_size
MainLoad ==
    /\ main.pc = "load"
    /\ LET all_files == load_all_zip_files(main.config.ssd_path, main.on_disk)
           valid_files == filter_valid_zip_files(all_files)
       IN  main' = IF valid_files = << >>
                   THEN [main EXCEPT !.pc = "exited", !.exit_code = Some(0)]
                   ELSE IF main.config.batch_size = None
                   THEN Fatal(main, Raise("TypeError", << "unsupported operand type(s) for +: 'int' and 'NoneType'" >>))
                   ELSE [main EXCEPT !.pc = "confirm", !.valid_files = valid_files]
    /\ UNCHANGED <<call, up, store, tasks, results, processed_count, bpc, progress,
                   max_workers, ledger, summ>>

\* the user answers the question; the batches are created on "s"
MainConfirm ==
    /\ main.pc = "confirm"
    /\ \E proceed \in { "s", "n" } :
          main' = IF proceed # "s"
                  THEN [main EXCEPT !.pc = "exited", !.exit_code = Some(0)]
                  ELSE [main EXCEPT !.pc = "loop",
                                    !.batches = create_batches(main.valid_files,
                                                               main.config.batch_size[1])]
    /\ UNCHANGED <<call, up, store, tasks, results, processed_count, bpc, progress,
                   max_workers, ledger, summ>>

\* the loop takes the next batch and calls process_batch_streaming, which submits
\* one work item per file
MainCallBatch ==
    /\ main.pc = "loop"
    /\ main.i < Len(main.batches)
    /\ main' = [main EXCEPT !.pc = "batch", !.i = @ + 1]
    /\ tasks' = [k \in 1..Len(main.batches[main.i + 1]) |->
                    Future(main.batches[main.i + 1][k])]
    /\ results' = << >>
    /\ processed_count' = 0
    /\ bpc' = "submitted"
    /\ UNCHANGED <<call, up, store, progress, max_workers, ledger, summ>>

\* process_batch_streaming returns its list: all_results.extend(batch_results)
MainBatchReturns ==
    /\ main.pc = "batch"
    /\ bpc = "returned"
    /\ main' = [main EXCEPT !.pc = "loop", !.all_results = @ \o results]
    /\ UNCHANGED <<call, up, store, tasks, results, processed_count, bpc, progress,
                   max_workers, ledger, summ>>

\* process_batch_streaming raises: main's except branch prints and exits with 1
MainBatchRaises ==
    /\ main.pc = "batch"
    /\ bpc = "raised"
    /\ main' = Fatal(main, Raise("MetadataError", MetadataErrorText))
    /\ UNCHANGED <<call, up, store, tasks, results, processed_count, bpc, progress,
                   max_workers, ledger, summ>>

\* after the last batch: the summary, its text, the report file and the console
MainReport ==
    /\ main.pc = "loop"
    /\ main.i = Len(main.batches)
    /\ LET final_summary == get_batch_summary(main.all_results).value
           summary_text == get_results_summary_text(final_summary)
       IN  main' = [main EXCEPT !.pc = "exited", !.exit_code = Some(0),
                                !.report = Some(summary_text),
                                !.console = Append(@, summary_text)]
    /\ UNCHANGED <<call, up, store, tasks, results, processed_count, bpc, progress,
                   max_workers, ledger, summ>>

NextMain ==
    \/ MainConfigure
    \/ MainComponents
    \/ MainLoad
    \/ MainConfirm
    \/ MainCallBatch
    \/ \E i \in 1..Len(tasks) : WorkerStart(i)
    \/ \E i \in 1..Len(tasks) : WorkerFinish(i)
    \/ AsCompleted
    \/ \E i \in 1..Len(tasks) : Collect(i)
    \/ SaveAndReturn
    \/ SaveRaises
    \/ MainBatchReturns
    \/ MainBatchRaises
    \/ MainReport

SpecMain == InitMain /\ [][NextMain]_vars

----------------------------------------------------------------------------
(* What a call did, read off its history *)

Uploaded(e) == e.read_ok
Succeeded(e) == e.read_ok /\ e.success
Failed(e) == e.read_ok /\ ~e.success
SkippedRead(e) == ~e.read_ok

Attempts == SelectSeq(call.log, Uploaded)
Successes == SelectSeq(call.log, Succeeded)
Failures == SelectSeq(call.log, Failed)
Skips == SelectSeq(call.log, SkippedRead)

\* the payload members of the listing: the entries named *.xml (a directory
\* entry is named */)
IsPayloadName(name) == Len(name) > 0 /\ name[Len(name)] = ".xml"
PayloadMembers == SelectSeq(call.archive.infolist, IsPayloadName)

CallDone == call.pc = "done"

----------------------------------------------------------------------------
(* Properties of process_single_file_streaming (SpecOne) *)

\* C1: the call never leaves through an exception: it is always at a step of its
\* own and ends holding a result; when an exception reached it (missing or
\* invalid archive, or an archive whose close fails after its last member) the
\* result is ERRO and error_message is that exception's text
C1_NeverPropagates ==
    /\ call.pc \in { "precheck", "stream", "read", "upload", "finalize", "done" }
    /\ CallDone =>
          /\ call.result.status \in { "ERRO", "SUCESSO", "SUCESSO_PARCIAL" }
          /\ ~(call.archive.exists /\ call.archive.valid) => call.exc # None
          /\ call.exc # None =>
                call.result.status = "ERRO" /\ call.result.error_message = call.exc

C1_Witness ==
    /\ CallDone /\ call.variant = "BP"
    /\ call.archive.exists /\ ~call.archive.valid
    /\ call.exc # None

\* C2: a returned result is ERRO exactly when no upload of the call succeeded,
\* wherever the member stream raised
C2_ErroIffNothingUploaded ==
    CallDone => (call.result.status = "ERRO" <=> Len(Successes) = 0)

\* C3: in a result that is not ERRO, xml_files_processed, the length of
\* uploaded_objects and the number of successful uploads of the call are equal
C3_CountsAgree ==
    CallDone /\ call.result.status # "ERRO" =>
        /\ call.result.xml_files_processed = Len(call.result.uploaded_objects)
        /\ Len(call.result.uploaded_objects) = Len(Successes)

C3_Witness ==
    /\ CallDone /\ call.variant = "BP"
    /\ call.result.status = "SUCESSO_PARCIAL" /\ Len(Successes) >= 2

\* C5: when every attempted upload succeeds (and one is attempted) the
\* result is SUCESSO and counts every payload member of the listing
C5_CountsEveryPayloadMember ==
    CallDone /\ Len(Attempts) >= 1 /\ Len(Failures) = 0 =>
        /\ call.result.status = "SUCESSO"
        /\ call.result.xml_files_processed = Len(call.result.uploaded_objects)
        /\ Len(call.result.uploaded_objects) = Len(PayloadMembers)

\* C6: with at least one successful and at least one failed upload the result is
\* SUCESSO_PARCIAL, in whatever order they came
C6_PartialSuccess ==
    CallDone /\ Len(Successes) >= 1 /\ Len(Failures) >= 1 =>
        call.result.status = "SUCESSO_PARCIAL"

\* C7: for an archive that opens and lists no payload member no upload is ever
\* made, and the result is ERRO with xml_files_processed = 0 and no uploaded object
C7_NoPayloadNoUpload ==
    call.pc # "idle" /\ call.archive.exists /\ call.archive.valid /\ Len(PayloadMembers) = 0 =>
        /\ call.pc # "upload" /\ call.log = << >> /\ store = { }
        /\ CallDone =>
              /\ call.result.status = "ERRO"
              /\ call.result.xml_files_processed = 0
              /\ call.result.uploaded_objects = << >>

C7_Witness ==
    /\ CallDone /\ call.variant = "BP" /\ call.archive.valid
    /\ Len(call.archive.infolist) >= 2 /\ Len(PayloadMembers) = 0

NamesEveryFailure(text, n) ==
    \A i \in 1..n : Contains(text, Failures[i].filename)

PartialResultIsExact ==
    /\ call.result.status = "SUCESSO_PARCIAL"
    /\ call.result.xml_files_processed = Len(Successes)
    /\ call.result.uploaded_objects = [i \in 1..Len(Successes) |-> Successes[i].object_name]
    /\ call.result.error_message # None

\* C9: with successes and failures the result is SUCESSO_PARCIAL, it
\* counts and lists exactly the successful uploads, and error_message contains the
\* file name of every failed member, however many
C9_NamesEveryFailedMember ==
    CallDone /\ Len(Successes) >= 1 /\ Len(Failures) >= 1 =>
        /\ PartialResultIsExact
        /\ NamesEveryFailure(call.result.error_message[1], Len(Failures))

ObjectNamesOf(events) == [k \in 1..Len(events) |-> events[k].object_name]

\* C24: within one call the members are processed strictly one after the other:
\* the upload of a member is not started before the outcome of every earlier
\* member is known, a member is uploaded at most once (no retry), and
\* uploaded_objects lists the names uploaded with success in listing order.
C24_SequentialNoRetry ==
    /\ call.pc \in { "read", "upload" } => Len(call.log) = call.idx - 1
    /\ Len(call.log) <= Len(call.xml_files)
    /\ \A k \in 1..Len(call.log) : call.log[k].filename = call.xml_files[k]
    /\ call.xml_files # << >> => call.xml_files = PayloadMembers
    /\ CallDone => call.result.uploaded_objects = ObjectNamesOf(Successes)

\* C25: every result a call returns carries the time elapsed between the entry
\* to the call and the exit from it: on normal completion with any status, on
\* the early failure returns, and on the exception path.
C25_ElapsedTimeOnEveryReturn ==
    CallDone => call.result.processing_time_seconds = call.now - call.start_time

\* the thread-pooled processor, which has no early return, sets the time on
\* every path
ElapsedTimeOnEveryReturnOfBP == call.variant = "BP" => C25_ElapsedTimeOnEveryReturn

----------------------------------------------------------------------------
(* Properties of upload_from_bytes (SpecUpload) *)

PutFailed == up.put_called /\ up.put.kind # "ok"

UploadReportsThePut ==
    /\ up.pc = "returned"
    /\ up.ret.object_name = up.object_name
    /\ up.ret.success <=> (up.put_called /\ up.put.kind = "ok")
    /\ up.ret.success => up.ret.size_bytes = Len(up.content)

\* C10 as stated: the call returns whatever the put does, success is reported
\* exactly when the put completed, with size_bytes = len(content), and a failed
\* put gives success = false with a non-empty error_message
C10_FailureHasNonEmptyMessage ==
    up.pc # "idle" =>
        /\ UploadReportsThePut
        /\ PutFailed =>
              /\ ~up.ret.success
              /\ up.ret.error_message # None
              /\ Len(up.ret.error_message[1]) > 0

\* C10 amended: the same, but the error_message of a failed put is the text
\* captured from the failure: "Erro OCI: " and the service error's message, or
\* str(e) of any other exception, which is empty when that exception has no text
C10_FailureHasCapturedMessage ==
    up.pc # "idle" =>
        /\ UploadReportsThePut
        /\ PutFailed =>
              /\ ~up.ret.success
              /\ up.ret.error_message # None
              /\ up.put.kind = "ServiceError" =>
                    /\ up.ret.error_message[1] = << "Erro OCI: " >> \o up.put.msg
                    /\ Len(up.ret.error_message[1]) > 0
              /\ up.put.kind = "Exception" =>
                    /\ up.ret.error_message[1] = up.put.msg
                    /\ Len(up.ret.error_message[1]) > 0 <=> Len(up.put.msg) > 0

C10_Witness ==
    /\ up.pc = "returned" /\ Len(up.content) = MaxLen
    /\ up.put.kind = "Exception" /\ up.put.msg = << >>
    /\ ~up.ret.success /\ up.ret.error_message = Some(<< >>)

\* C11: a call with empty content returns success = false with the descriptive
\* message, never invokes put_object, and leaves the bucket as it was
C11_EmptyContentMakesNoCall ==
    up.pc # "idle" /\ Len(up.content) = 0 =>
        /\ up.pc = "returned"
        /\ ~up.ret.success
        /\ up.ret.size_bytes = 0
        /\ up.ret.error_message = Some(<< "Conteudo vazio" >>)
        /\ ~up.put_called
        /\ store = up.before

C11_Witness ==
    /\ up.pc = "returned" /\ Len(up.content) = 0 /\ ~up.put_called
    /\ store # { } /\ store = up.before

----------------------------------------------------------------------------
(* Properties of process_batch_streaming (Spec) *)

ResultsOf(i) == { k \in 1..Len(results) : results[k].zip_filename = tasks[i].zip_filename }

\* C4: when the callback does not raise, the returned list holds exactly one
\* result for every submitted archive and nothing else, whatever the pool width
\* and the order in which the workers finish
C4_OneResultPerArchive ==
    bpc = "returned" /\ progress.raised = { } =>
        /\ Len(results) = Len(tasks)
        /\ \A i \in 1..Len(tasks) : Cardinality(ResultsOf(i)) = 1

C4_Witness ==
    /\ bpc = "returned" /\ Len(tasks) = MaxArchives
    /\ max_workers > 1
    /\ results[1].zip_filename = tasks[2].zip_filename

\* C8: an archive missing from the disk gets ERRO, no XML counted and a non-empty
\* error_message, and every archive of the batch, the others included, is
\* returned the result its own process_single_file_streaming call produced
C8_MissingArchiveIsContained ==
    bpc = "returned" =>
        \A i \in 1..Len(tasks) :
            /\ \E k \in ResultsOf(i) : results[k] = tasks[i].result
            /\ ~tasks[i].exists =>
                  \A k \in ResultsOf(i) :
                      /\ results[k].status = "ERRO"
                      /\ results[k].xml_files_processed = 0
                      /\ results[k].error_message # None
                      /\ Len(results[k].error_message[1]) > 0

C8_Witness ==
    /\ bpc = "returned" /\ Len(tasks) = MaxArchives
    /\ ~tasks[1].exists /\ tasks[2].exists
    /\ tasks[2].result.status = "SUCESSO"
    /\ results[1].zip_filename = tasks[1].zip_filename

SaveRuns == bpc = "collect" /\ bpc' \in { "returned", "raised" }
NoWorkerLeft == \A i \in 1..Len(tasks) : tasks[i].state \in { "finished", "done", "collected" }

\* C26: in every process_batch_streaming call save_processing_results runs
\* once, and only after every worker of the call has finished: when it runs no
\* process_single_file_streaming call of the batch is executing or waiting, the
\* ledger changes in no other step, and one write adds the rows of one batch.
C26_LedgerWrittenOnceAfterJoin ==
    [][/\ SaveRuns => NoWorkerLeft /\ Running = { }
       /\ ledger' # ledger => SaveRuns /\ bpc' = "returned"
       /\ bpc' = "returned" => Len(ledger'.rows) = Len(ledger.rows) + Len(tasks)
       /\ bpc \in { "returned", "raised" } => bpc' = bpc /\ ledger' = ledger]_vars

\* the ledger has been written after two workers ran the archives of the batch
C26_Witness ==
    /\ bpc = "returned"
    /\ Len(tasks) = MaxArchives
    /\ max_workers = 2
    /\ Len(ledger.rows) = Len(OldLedger.rows) + Len(tasks)

\* C30: in every record of the ledger, whatever its status, the number of object
\* names recorded equals the number of uploads counted as successful, also for
\* an archive whose call ended in its exception handler after uploads succeeded
C30_LedgerCountsAgree ==
    \A k \in 1..Len(ledger.rows) :
        ledger.rows[k].uploaded_objects_count = ledger.rows[k].xml_files_processed

----------------------------------------------------------------------------
(* Properties of the summary and of the report text (SpecSummary) *)

Summarized == summ.pc \notin { "idle", "called" }
NumResults == Len(summ.results)
CountOf(status) == Cardinality({ i \in 1..NumResults : summ.results[i].status = status })

\* C12: the summary of an empty list is exactly {total_files: 0}; no summary and
\* no report text fails with a division error or a missing key, whatever the
\* list; and the rates the summary does not hold are rendered as zero
C12_EmptySummaryIsTotalZero ==
    Summarized =>
        /\ summ.pc = "returned"
        /\ Len(summ.text) = 7
        /\ summ.results = << >> =>
              /\ summ.out = [total_files |-> 0]
              /\ DOMAIN summ.out = { "total_files" }
              /\ summ.text[1][2] = 0
              /\ \A l \in 5..7 : summ.text[l][2] = "0.00" /\ Len(summ.text[l]) = 2

C12_Witness ==
    summ.pc = "returned" /\ summ.variant = "BP" /\ summ.results = << >>

AllPositions == { << i, j >> \in (1..NumResults) \X (1..2) :
                    j <= summ.results[i].xml_files_processed }

\* C14: for N >= 1 results that are all SUCESSO the summary has total_files = N,
\* successful = N, failed = 0, a success rate of 100 and the sum of the results'
\* xml_files_processed as total_xml_files_processed
C14_AllSucceededSummary ==
    Summarized /\ NumResults >= 1 /\ CountOf("SUCESSO") = NumResults =>
        /\ summ.out.total_files = NumResults
        /\ summ.out.successful = NumResults
        /\ summ.out.failed = 0
        /\ summ.out.success_rate_percent.den # 0
        /\ summ.out.success_rate_percent.num = 100 * summ.out.success_rate_percent.den
        /\ summ.out.total_xml_files_processed = Cardinality(AllPositions)

C14_Witness ==
    /\ summ.pc = "returned" /\ summ.variant = "BP" /\ NumResults = MaxResults
    /\ CountOf("SUCESSO") = NumResults
    /\ summ.results[1].xml_files_processed # summ.results[2].xml_files_processed

\* the keys of a summary that count archives
CountKeys ==
    DOMAIN summ.out \ { "total_xml_files_processed", "total_processing_time_seconds",
                        "average_processing_time_per_file", "success_rate_percent",
                        "total_bytes_uploaded", "total_bytes_uploaded_mb",
                        "average_bytes_per_file" }

\* C15 as stated: the summary holds a total and three separate counts, the
\* succeeded one counting SUCESSO, the partial one SUCESSO_PARCIAL, the failed
\* one ERRO, and the three sum to the total
C15_ThreeSeparateCounts ==
    Summarized /\ NumResults >= 1 =>
        /\ Cardinality(CountKeys) = 4
        /\ summ.out.successful = CountOf("SUCESSO")
        /\ summ.out.failed = CountOf("ERRO")
        /\ summ.out.total_files = CountOf("SUCESSO") + CountOf("SUCESSO_PARCIAL") + CountOf("ERRO")

\* C15 amended: the summary of a non-empty list holds a total and two counts and
\* no partial count: successful counts the results with SUCESSO or
\* SUCESSO_PARCIAL, failed the results with ERRO, and the two sum to the total
C15_TwoCounts ==
    Summarized /\ NumResults >= 1 =>
        /\ CountKeys = { "total_files", "successful", "failed" }
        /\ summ.out.successful = CountOf("SUCESSO") + CountOf("SUCESSO_PARCIAL")
        /\ summ.out.failed = CountOf("ERRO")
        /\ summ.out.total_files = NumResults
        /\ summ.out.successful + summ.out.failed = summ.out.total_files

C15_Witness ==
    /\ summ.pc = "returned" /\ NumResults = MaxResults
    /\ CountOf("SUCESSO") >= 1 /\ CountOf("SUCESSO_PARCIAL") >= 1 /\ CountOf("ERRO") >= 1

TimeKeys == { "total_processing_time_seconds", "average_processing_time_per_file" }
ExactTime == IntSum([i \in 1..NumResults |-> summ.results[i].processing_time_seconds])
Abs(x) == IF x < 0 THEN 0 - x ELSE x
\* a float sum of n terms is off the exact sum by at most n half-gaps
WithinRounding(d) ==
    /\ 2 * Abs(d.total_processing_time_seconds.num - ExactTime)
          <= NumResults * Ulp(d.total_processing_time_seconds.num)
    /\ d.average_processing_time_per_file =
          Div(d.total_processing_time_seconds.num, NumResults)

----------------------------------------------------------------------------
(* Properties of a run of main (SpecMain) *)

\* the file name of an archive, without its directory and without ".zip"
ArchiveBase(zip_filename) ==
    LET n == Len(zip_filename)
    IN  IF n >= 2 /\ zip_filename[n] = ".zip" THEN << zip_filename[n - 1] >>
        ELSE << zip_filename[n] >>

\* C16: every upload issued for a member m of an archive A under the prefix p
\* uses the object name p/base(A)/m, where base(A) is the archive's file name
\* without its directory and without ".zip", for the paths load_all_zip_files
\* produces as well.
C16_ObjectNameConvention ==
    \A i \in 1..Len(tasks) : \A k \in 1..Len(tasks[i].uploads) :
        tasks[i].uploads[k].object_name =
            << ObjectPrefix, "/" >> \o ArchiveBase(tasks[i].zip_filename)
                \o << "/" >> \o tasks[i].uploads[k].filename

Exited == main.pc = "exited"
StartedBatches == main.i >= 1
LedgerFailed == bpc = "raised"
OnConsole(text) == \E k \in 1..Len(main.console) : main.console[k] = text

\* C17: a run of main that has started processing batches ends with the
\* end-of-run summary, written to the report file and printed on the console,
\* whatever the outcomes of the archives and of the ledger writes were.
C17_RunEndsWithSummary ==
    Exited /\ StartedBatches =>
        /\ main.report # None
        /\ OnConsole(main.report[1])

\* C18: when the ledger write of a batch fails, the failure is surfaced to the
\* caller and the results computed before the write are still delivered to it
\* and counted in the run's results.
C18_LedgerFailureKeepsResults ==
    Exited /\ LedgerFailed =>
        /\ OnConsole(FatalText(MetadataErrorText))
        /\ \A k \in 1..Len(results) :
              \E j \in 1..Len(main.all_results) : main.all_results[j] = results[k]

Positive(opt) == opt # None /\ opt[1] > 0

\* C22: whenever the BatchProcessor is constructed, validation has succeeded and
\* batch_size and max_workers are present and strictly positive; a
\* configuration that lacks one of them, or holds a non-positive value, is
\* rejected with ConfigurationError before any pipeline work.
C22_ValidatedBeforePipeline ==
    /\ main.pipeline => Positive(main.config.batch_size) /\ Positive(main.config.max_workers)
    /\ Exited /\ ~(Positive(main.config.batch_size) /\ Positive(main.config.max_workers)) =>
          /\ main.error = Some("ConfigurationError")
          /\ ~main.pipeline
          /\ tasks = << >>

\* C27: no archive is streamed and no upload is attempted unless the
\* object-store client has been constructed and its connectivity check has
\* succeeded; when the store is unreachable or misconfigured the construction
\* fails with OCIConnectionError and the run aborts before any pipeline work.
C27_NoWorkWithoutClient ==
    /\ (tasks # << >> \/ store # { } \/ main.pipeline) =>
          main.client /\ main.env.oci = "ok"
    /\ Exited /\ main.env.oci # "ok" /\ ~validate_config(main.config, main.env).raised =>
          /\ main.error = Some("OCIConnectionError")
          /\ tasks = << >> /\ store = { }
          /\ ~main.pipeline

\* archives wait on the disk, the bucket cannot be reached, and the run has ended
C27_Witness ==
    /\ Exited
    /\ main.on_disk >= 1
    /\ main.env.oci \in { "service", "network" }
    /\ main.error = Some("OCIConnectionError")

SaveStep == bpc = "collect" /\ bpc' = "returned"

----------------------------------------------------------------------------
(* Properties of the progress callback (SpecCallback) *)

Collected == { i \in 1..Len(tasks) : tasks[i].state = "collected" }

\* C20: a progress callback that is supplied is invoked exactly once per
\* archive, after the archive's result has been added, with the number k of
\* archives completed so far and the batch size N: k runs over 1..N, and the
\* last call is (N, N).
C20_ProgressOncePerArchive ==
    progress.given =>
        /\ Len(progress.calls) = Cardinality(Collected)
        /\ \A k \in 1..Len(progress.calls) :
              /\ progress.calls[k] = << k, Len(tasks) >>
              /\ k <= Len(results)
        /\ bpc = "returned" => Len(progress.calls) = Len(tasks)

\* as long as no call of the callback has raised, the calls are as C20 says
ProgressWhileNoCallRaises == progress.raised = { } => C20_ProgressOncePerArchive

----------------------------------------------------------------------------
(* Properties of the two processors side by side (SpecSideBySide) *)

SameOutcome(r, q) ==
    /\ r.zip_filename = q.zip_filename
    /\ r.status = q.status
    /\ r.xml_files_processed = q.xml_files_processed
    /\ r.uploaded_objects = q.uploaded_objects

\* C28: with a pool of one thread BatchProcessor.process_batch_streaming returns
\* what StreamingBatchProcessor.process_batch_streaming returns for the same
\* archives and the same outcomes of the environment: the same number of
\* results, in submission order, and at every place a result for the same
\* archive with the same status, xml_files_processed and uploaded_objects
C28_WidthOneIsSequential ==
    bpc = "returned" =>
        /\ Len(results) = Len(call.results)
        /\ \A k \in 1..Len(results) :
              /\ results[k].zip_filename = tasks[k].zip_filename
              /\ SameOutcome(results[k], call.results[k])

\* every archive has in both lists a result with the same status and count
SameStatusAndCountPerArchive ==
    bpc = "returned" =>
        /\ Len(results) = Len(call.results)
        /\ \A k \in 1..Len(results) : \E j \in 1..Len(call.results) :
              /\ results[k].zip_filename = call.results[j].zip_filename
              /\ results[k].status = call.results[j].status
              /\ results[k].xml_files_processed = call.results[j].xml_files_processed
              /\ results[k].status # "ERRO" =>
                    results[k].uploaded_objects = call.results[j].uploaded_objects

\* the rows the call has added to the ledger
NewRows == SubSeq(ledger.rows, Len(OldLedger.rows) + 1, Len(ledger.rows))
RowsOf(i) == { k \in 1..Len(NewRows) : NewRows[k].zip_filename = tasks[i].zip_filename }

\* C29: a progress callback that raises while an archive's result is collected
\* does not end the batch: the other archives are collected all the same, and
\* the list returned and the rows written hold exactly one result for that
\* archive, with the status its process_single_file_streaming call computed
C29_RaisingCallbackKeepsOneResult ==
    bpc = "returned" =>
        /\ \A i \in 1..Len(tasks) : ResultsOf(i) # { }
        /\ \A i \in progress.raised :
              /\ Cardinality(ResultsOf(i)) = 1
              /\ \A k \in ResultsOf(i) : results[k].status = tasks[i].result.status
              /\ Cardinality(RowsOf(i)) = 1
              /\ \A k \in RowsOf(i) : NewRows[k].status = tasks[i].result.status

\* the batch is not ended by the callback: every archive is collected and the
\* result of its call is in the list
RaisingCallbackEndsNoBatch ==
    bpc = "returned" =>
        \A i \in 1..Len(tasks) : \E k \in ResultsOf(i) : results[k] = tasks[i].result

----------------------------------------------------------------------------
(* Properties of the progress callback that returns (SpecProgress) *)

\* C21: the progress callback for an archive is executed on the worker thread
\* that finished the archive's call, not on the thread that called
\* process_batch_streaming.
C21_CallbackOnWorkerThread ==
    \A k \in 1..Len(progress.by) :
        /\ progress.by[k].thread = WorkerThread(progress.by[k].archive)
        /\ progress.by[k].thread # CallerThread

\* C21 as amended: the callback for an archive is executed on the thread that
\* called process_batch_streaming, once per collected archive and after the
\* archive's worker has finished; never on the archive's worker thread.
C21_CallbackOnCallerThread ==
    /\ Len(progress.by) = Len(progress.calls)
    /\ \A k \in 1..Len(progress.by) :
          /\ progress.by[k].thread = CallerThread
          /\ progress.by[k].thread # WorkerThread(progress.by[k].archive)
          /\ tasks[progress.by[k].archive].state = "collected"
    /\ progress.given => \A i \in Collected : \E k \in 1..Len(progress.by) :
                             progress.by[k].archive = i

\* two archives ran on the pool at once, and the callback has run for both
C21_Witness ==
    /\ Len(progress.by) >= 2
    /\ max_workers >= 2
    /\ progress.by[1].archive = 2

----------------------------------------------------------------------------
(* Properties of stream_xml_files (SpecList) *)

\* the positions in the listing of the entries that are no directory and whose
\* name ends in .xml, in order
RECURSIVE XmlPositions(_, _)
XmlPositions(infolist, from) ==
    IF from > Len(infolist) THEN << >>
    ELSE IF EndsWith(infolist[from], ".xml") /\ ~EndsWith(infolist[from], "/")
    THEN << from >> \o XmlPositions(infolist, from + 1)
    ELSE XmlPositions(infolist, from + 1)

Listed == call.pc \in { "finalize", "done" }
Entries == call.archive.entries
XmlAt == XmlPositions(call.archive.infolist, 1)

IsReadable(i) == Entries[i].crc_ok
ReadableXml == SelectSeq(XmlAt, IsReadable)

\* C23: stream_xml_files yields, in listing order and each exactly once, one
\* XMLFileStream for every entry that is no directory, whose name ends in
\* .xml and whose read succeeds, with the entry's name, the entry's bytes and
\* size = len(content); other entries are never yielded, and a member whose
\* read fails is skipped without ending the sequence.
C23_YieldsEveryReadableXmlEntry ==
    Listed =>
        /\ Len(call.out) = Len(ReadableXml)
        /\ \A k \in 1..Len(call.out) :
              /\ k <= Len(ReadableXml)
              /\ call.out[k].filename = Entries[ReadableXml[k]].filename
              /\ call.out[k].content = Entries[ReadableXml[k]].data
              /\ call.out[k].size = Len(call.out[k].content)
              /\ IsXmlInfo(call.out[k].filename)

\* when no two entries bear one name, the sequence is as C23 says
DistinctNames == \A i, j \in 1..Len(Entries) : Entries[i].filename = Entries[j].filename => i = j
YieldsEveryReadableXmlEntryOfDistinctNames == DistinctNames => C23_YieldsEveryReadableXmlEntry
====
